---- MODULE Spec2Model ----
(***************************************************************************)
(* Retrieval-augmented query engine of the transcript backend:             *)
(* services/cache_service.py, services/rag_service.py,                     *)
(* services/translation_service.py, services/summarization_service.py.     *)
(*                                                                         *)
(* Conventions.                                                            *)
(*  - A Python str that the code inspects character by character is a      *)
(*    sequence of one-character strings; "" is <<>>.                       *)
(*  - Optional values: None is <<>>, a present value x is <<x>>.           *)
(*  - A Python dict with optional keys is a TLA+ function whose DOMAIN is  *)
(*    the set of keys present.                                             *)
(*  - Scores are exact rationals kept as integers: keyword scores in units *)
(*    of 1/60, semantic scores in units of 1/100, combined scores in units *)
(*    of 1/6000 (0.4*kw + 0.6*sem = (40*kw60 + 36*sem100)/6000).           *)
(***************************************************************************)
EXTENDS Integers, Sequences, FiniteSets, TLC

None == <<>>

Some(x) == <<x>>

\* dict.get(key, default)
Get(d, k, default) == IF k \in DOMAIN d THEN d[k] ELSE default

Range(s) == {s[i] : i \in DOMAIN s}

Min(a, b) == IF a < b THEN a ELSE b

\* ------------------------------------------------------------------ strings

Whitespace == {" ", "\n", "\t"}

SentenceEnd == {".", "!", "?"}

\* str.lower() on the letters the inputs use
LowerChar(c) ==
    CASE c = "A" -> "a"
      [] c = "B" -> "b"
      [] c = "C" -> "c"
      [] OTHER -> c

Lower(s) == [i \in DOMAIN s |-> LowerChar(s[i])]

\* sep.join(parts)
RECURSIVE Join(_, _)
Join(parts, sep) ==
    IF parts = <<>> THEN <<>>
    ELSE IF Len(parts) = 1 THEN parts[1]
    ELSE parts[1] \o sep \o Join(Tail(parts), sep)

\* str.strip(): drop leading and trailing whitespace
RECURSIVE LStrip(_)
LStrip(s) ==
    IF s # <<>> /\ s[1] \in Whitespace THEN LStrip(Tail(s)) ELSE s

RECURSIVE RStrip(_)
RStrip(s) ==
    IF s # <<>> /\ s[Len(s)] \in Whitespace
    THEN RStrip(SubSeq(s, 1, Len(s) - 1))
    ELSE s

Strip(s) == RStrip(LStrip(s))

\* s[:n]
Prefix(s, n) == SubSeq(s, 1, Min(n, Len(s)))

\* first index >= i holding a non-whitespace character, Len(s)+1 if none
RECURSIVE SkipSpace(_, _)
SkipSpace(s, i) ==
    IF i <= Len(s) /\ s[i] \in Whitespace THEN SkipSpace(s, i + 1) ELSE i

\* first index >= i holding a whitespace character, Len(s)+1 if none
RECURSIVE SkipWord(_, _)
SkipWord(s, i) ==
    IF i <= Len(s) /\ s[i] \notin Whitespace THEN SkipWord(s, i + 1) ELSE i

\* set(str.split()): the maximal runs of non-whitespace characters
RECURSIVE WordsFrom(_, _)
WordsFrom(s, i) ==
    LET b == SkipSpace(s, i)
        e == SkipWord(s, b)
    IN IF b > Len(s) THEN {} ELSE {SubSeq(s, b, e - 1)} \cup WordsFrom(s, e)

WordSet(s) == WordsFrom(s, 1)

\* re.split(r'(?<=[.!?])\s+', text): cut at every whitespace run that
\* directly follows a sentence-terminal character
RECURSIVE SplitFrom(_, _, _)
SplitFrom(text, i, cur) ==
    IF i > Len(text) THEN <<cur>>
    ELSE IF i > 1 /\ text[i - 1] \in SentenceEnd /\ text[i] \in Whitespace
         THEN <<cur>> \o SplitFrom(text, SkipSpace(text, i), <<>>)
         ELSE SplitFrom(text, i + 1, Append(cur, text[i]))

SplitSentences(text) == SplitFrom(text, 1, <<>>)

\* ------------------------------------------------------------------ cache_service

\* a key that forgets the text: every input of an operation shares one entry
get_cache_key_operation_only(text, operation) == <<operation, ":">>

\* get_cache_key: sha256 of "<operation>:<text>". The digest is modelled as an
\* injective encoding of the hashed content, so the key is the content itself.
get_cache_key(text, operation) == <<operation, ":">> \o text

\* get_cached_result: _cache.get(key), None when the key is absent
get_cached_result(c, text, operation) ==
    LET key == get_cache_key(text, operation)
    IN IF key \in DOMAIN c THEN Some(c[key]) ELSE None

\* set_cached_result: _cache[key] = result
set_cached_result(c, text, operation, result) ==
    LET key == get_cache_key(text, operation)
    IN [k \in DOMAIN c \cup {key} |-> IF k = key THEN result ELSE c[k]]

\* clear_cache: _cache.clear()
clear_cache(c) == <<>>

\* `if cached:` on an Optional[str]: None and "" are both falsy
TruthyStr(cached) == cached # None /\ cached[1] # <<>>

\* `if cached:` on an Optional[dict]: None and {} are falsy
TruthyDict(cached) == cached # None /\ DOMAIN cached[1] # {}

\* ------------------------------------------------------------------ chunking

window_size == 5

overlap == 2

chunk_transcript_by_segments(segments) ==
    [i \in 1..Len(segments) |->
        [chunk_id    |-> <<"seg_", i - 1>>,
         text        |-> Get(segments[i], "text", <<>>),
         start_time  |-> Get(segments[i], "start", None),
         end_time    |-> Get(segments[i], "end", None),
         source_type |-> "asr_segment"]]

\* `if chunk_text:` without the strip
NotBlank_unstripped(chunk_text) == chunk_text # <<>>

\* line 56: `if chunk_text.strip():`
NotBlank(chunk_text) == Strip(chunk_text) # <<>>

\* windows that do not overlap: the next window starts where this one ends
RECURSIVE TextWindows_disjoint(_, _)
TextWindows_disjoint(sentences, i) ==
    IF i >= Len(sentences) THEN <<>>
    ELSE LET window     == SubSeq(sentences, i + 1, Min(i + window_size, Len(sentences)))
             chunk_text == Join(window, <<" ">>)
             rest       == TextWindows_disjoint(sentences, i + window_size)
         IN IF Strip(chunk_text) # <<>>
            THEN <<[chunk_id    |-> <<"text_", i>>,
                    text        |-> chunk_text,
                    start_time  |-> None,
                    end_time    |-> None,
                    source_type |-> "text_chunk"]>> \o rest
            ELSE rest

\* the loop `for i in range(0, len(sentences), window_size - overlap)`,
\* i counted from 0 as in the source
RECURSIVE TextWindows(_, _)
TextWindows(sentences, i) ==
    IF i >= Len(sentences) THEN <<>>
    ELSE LET window     == SubSeq(sentences, i + 1, Min(i + window_size, Len(sentences)))
             chunk_text == Join(window, <<" ">>)
             rest       == TextWindows(sentences, i + (window_size - overlap))
         IN IF NotBlank(chunk_text)
            THEN <<[chunk_id    |-> <<"text_", i>>,
                    text        |-> chunk_text,
                    start_time  |-> None,
                    end_time    |-> None,
                    source_type |-> "text_chunk"]>> \o rest
            ELSE rest

chunk_transcript_by_text(text) == TextWindows(SplitSentences(text), 0)

\* Optional[List[dict]] argument of build_rag_index
NoSegments == [is_none |-> TRUE, items |-> <<>>]

SegmentList(l) == [is_none |-> FALSE, items |-> l]

\* `if segments:`: one segment is enough
UseSegments_nonempty(segments) == ~segments.is_none /\ segments.items # <<>>

\* build_rag_index, lines 112-117: `if segments and len(segments) > 1`
UseSegments(segments) ==
    /\ ~segments.is_none
    /\ segments.items # <<>>
    /\ Len(segments.items) > 1

ChooseChunks(transcript_text, segments) ==
    IF UseSegments(segments)
    THEN chunk_transcript_by_segments(segments.items)
    ELSE chunk_transcript_by_text(transcript_text)

\* ------------------------------------------------------------------ embeddings

EmbedLimit == 8000

\* `text[:8000] if len(text) > 8000 else text`
Truncate(text) == IF Len(text) > EmbedLimit THEN Prefix(text, EmbedLimit) ELSE text

\* the vectors obtained remotely before the failure are kept and only the
\* rest of the batch is embedded locally
compute_embeddings_per_item(texts, env) ==
    IF ~env.api_key
    THEN [raised |-> "ValueError", embeddings |-> <<>>,
          remote_calls |-> <<>>, local_calls |-> <<>>]
    ELSE LET n      == Len(texts)
             failed == env.remote_fail \in 1..n
             sent   == IF failed THEN env.remote_fail ELSE n
             remote == [i \in 1..sent |-> Truncate(texts[i])]
         IN IF failed /\ ~env.local_ok
            THEN [raised |-> "Exception", embeddings |-> <<>>,
                  remote_calls |-> remote, local_calls |-> texts]
            ELSE [raised |-> "", remote_calls |-> remote,
                  local_calls |-> IF failed THEN SubSeq(texts, sent, n) ELSE <<>>,
                  embeddings |-> [i \in 1..n |->
                      IF i < sent \/ ~failed
                      THEN [provider |-> "remote", content |-> remote[i]]
                      ELSE [provider |-> "local", content |-> texts[i]]]]

\* compute_embeddings. env is what the outside world does during the call:
\*   api_key     : GEMINI_API_KEY is set
\*   remote_fail : 0 when every remote call succeeds, k when the k-th fails
\*   local_ok    : the sentence-transformers fallback works
\* A vector is kept as the provider that made it and the text handed to it.
compute_embeddings(texts, env) ==
    IF ~env.api_key
    THEN [raised |-> "ValueError", embeddings |-> <<>>,
          remote_calls |-> <<>>, local_calls |-> <<>>]
    ELSE LET n      == Len(texts)
             failed == env.remote_fail \in 1..n
             sent   == IF failed THEN env.remote_fail ELSE n
             remote == [i \in 1..sent |-> Truncate(texts[i])]
         IN IF ~failed
            THEN [raised |-> "", remote_calls |-> remote, local_calls |-> <<>>,
                  embeddings |-> [i \in 1..n |->
                      [provider |-> "remote", content |-> remote[i]]]]
            ELSE IF env.local_ok
            THEN [raised |-> "", remote_calls |-> remote, local_calls |-> texts,
                  embeddings |-> [i \in 1..n |->
                      [provider |-> "local", content |-> texts[i]]]]
            ELSE [raised |-> "Exception", embeddings |-> <<>>,
                  remote_calls |-> remote, local_calls |-> texts]

\* ------------------------------------------------------------------ ranking

\* keyword_score, in units of 1/60
keyword_score(question, text) ==
    LET q_words == WordSet(Lower(question))
        t_words == WordSet(Lower(text))
    IN IF q_words = {} THEN 0
       ELSE (Cardinality(q_words \cap t_words) * 60) \div Cardinality(q_words)

\* dict comprehension {c["chunk_id"]: keyword_score(question, c["text"])}:
\* a later chunk with the same id overwrites an earlier one
KeywordScores(question, all_chunks) ==
    LET ids == {all_chunks[i].chunk_id : i \in DOMAIN all_chunks}
        last(id) == CHOOSE i \in DOMAIN all_chunks :
                       /\ all_chunks[i].chunk_id = id
                       /\ \A j \in DOMAIN all_chunks :
                             all_chunks[j].chunk_id = id => j <= i
    IN [id \in ids |-> keyword_score(question, all_chunks[last(id)].text)]

\* `max(keyword_scores.values()) if keyword_scores else 1`
MaxKeyword_default_one(keyword_scores) ==
    IF DOMAIN keyword_scores = {} THEN 60
    ELSE CHOOSE m \in {keyword_scores[id] : id \in DOMAIN keyword_scores} :
            \A id \in DOMAIN keyword_scores : keyword_scores[id] <= m

\* `max(keyword_scores.values()) if keyword_scores else 0`
MaxKeyword(keyword_scores) ==
    IF DOMAIN keyword_scores = {} THEN 0
    ELSE CHOOSE m \in {keyword_scores[id] : id \in DOMAIN keyword_scores} :
            \A id \in DOMAIN keyword_scores : keyword_scores[id] <= m

PreviewLen == 200

\* `doc[:200] + "..." if len(doc) > 200 else doc`
text_preview(doc) ==
    IF Len(doc) > PreviewLen THEN Prefix(doc, PreviewLen) \o <<".", ".", ".">> ELSE doc

\* lines 227-239: one ranked entry per semantic result, in result order.
\* distances are in units of 1/100, the combined score in units of 1/6000.
ScoreResults(keyword_scores, results) ==
    [i \in DOMAIN results.ids[1] |->
        LET chunk_id       == results.ids[1][i]
            semantic_score == 100 - results.distances[1][i]
            kw_score       == Get(keyword_scores, chunk_id, 0)
        IN [chunk_id     |-> chunk_id,
            score        |-> 40 * kw_score + 36 * semantic_score,
            text         |-> results.documents[1][i],
            text_preview |-> text_preview(results.documents[1][i]),
            start_time   |-> Get(results.metadatas[1][i], "start_time", None),
            end_time     |-> Get(results.metadatas[1][i], "end_time", None)]]

\* list.sort(key=score, reverse=True): stable, equal scores keep their order
RECURSIVE InsertDesc(_, _)
InsertDesc(sorted, x) ==
    IF sorted = <<>> THEN <<x>>
    ELSE IF sorted[1].score >= x.score
         THEN <<sorted[1]>> \o InsertDesc(Tail(sorted), x)
         ELSE <<x>> \o sorted

RECURSIVE SortFrom(_, _, _)
SortFrom(seq, i, acc) ==
    IF i > Len(seq) THEN acc ELSE SortFrom(seq, i + 1, InsertDesc(acc, seq[i]))

\* the sort left out: the entries stay in the order of the semantic results
SortByScoreDesc_unsorted(ranked_chunks) == ranked_chunks

SortByScoreDesc(ranked_chunks) == SortFrom(ranked_chunks, 1, <<>>)

TopN == 3

\* lines 241-242
TopChunks(ranked_chunks) == Prefix(SortByScoreDesc(ranked_chunks), TopN)

\* 0.3 in units of 1/6000
ScoreThreshold == 1800

\* `<=` in place of `<` on the keyword threshold
Refuse_inclusive(max_keyword, threshold, top_chunks) ==
    /\ max_keyword <= threshold
    /\ (top_chunks = <<>> \/ top_chunks[1].score < ScoreThreshold)

\* line 252: `max_keyword < keyword_threshold and
\*            (not top_chunks or top_chunks[0]["score"] < 0.3)`
Refuse(max_keyword, keyword_threshold, top_chunks) ==
    /\ max_keyword < keyword_threshold
    /\ (top_chunks = <<>> \/ top_chunks[1].score < ScoreThreshold)

\* characters of the Myanmar block U+1000..U+109F, named by code point
MyanmarBlock == {"U+1000", "U+1019", "U+109F"}

is_burmese(text) == \E i \in DOMAIN text : text[i] \in MyanmarBlock

GuidanceMessage == <<"Please index a transcript first before asking questions.">>

RefusalBurmese == <<"refusal (Burmese)">>

RefusalEnglish == <<"I can only answer questions based on this transcript. I couldn't find relevant information to answer your question.">>

\* ------------------------------------------------------------------ vector store

collection_name == "transcript_chunks"

\* default argument of get_index_stats, get_all_chunks and clear_index
default_collection_name == "lecture_transcript"

\* chroma_client is a function from the names of the existing collections
\* to their contents
EmptyCollection ==
    [ids |-> <<>>, embeddings |-> <<>>, documents |-> <<>>, metadatas |-> <<>>]

collection_exists(st, name) == name \in DOMAIN st

delete_collection(st, name) == [n \in DOMAIN st \ {name} |-> st[n]]

\* get_or_create_collection: an existing collection is kept as it is
create_collection_or_get(st, name, ok) ==
    IF ~ok THEN [raised |-> TRUE, store |-> st]
    ELSE [raised |-> FALSE,
          store  |-> [n \in DOMAIN st \cup {name} |->
                        IF n \in DOMAIN st THEN st[n] ELSE EmptyCollection]]

\* create_collection raises when the name is taken (or the store fails:
\* ~ok); otherwise the new collection is empty
create_collection(st, name, ok) ==
    IF collection_exists(st, name) \/ ~ok
    THEN [raised |-> TRUE, store |-> st]
    ELSE [raised |-> FALSE,
          store  |-> [n \in DOMAIN st \cup {name} |->
                        IF n = name THEN EmptyCollection ELSE st[n]]]

collection_add(collection, ids, embeddings, documents, metadatas) ==
    [ids        |-> collection.ids \o ids,
     embeddings |-> collection.embeddings \o embeddings,
     documents  |-> collection.documents \o documents,
     metadatas  |-> collection.metadatas \o metadatas]

\* lines 146-153: None values are left out of the metadata
BuildMetadata(c) ==
    LET keys == {"source_type"}
                \cup (IF c.start_time # None THEN {"start_time"} ELSE {})
                \cup (IF c.end_time # None THEN {"end_time"} ELSE {})
    IN [k \in keys |->
          IF k = "source_type" THEN <<c.source_type>>
          ELSE IF k = "start_time" THEN c.start_time
          ELSE c.end_time]

\* ------------------------------------------------------------------ build_rag_index

\* lines 130-136: get_collection + delete_collection inside try/except; every
\* failure (no collection, or a failing delete) is swallowed
DeleteExisting(st, delete_ok) ==
    IF collection_exists(st, collection_name) /\ delete_ok
    THEN delete_collection(st, collection_name)
    ELSE st

\* build_rag_index(transcript_text, segments) run against store st.
\* env is what the outside world does during the call:
\*   embed     : see compute_embeddings
\*   delete_ok, create_ok, add_ok : the store accepts the delete / create / add
\* Result: raised ("" when the call returns), the store afterwards, the
\* returned dict and the embedding calls made.
build_rag_index(st, transcript_text, segments, env) ==
    LET chunks == ChooseChunks(transcript_text, segments)
        texts  == [i \in DOMAIN chunks |-> chunks[i].text]
        emb    == compute_embeddings(texts, env.embed)
        st1    == DeleteExisting(st, env.delete_ok)
        made2  == create_collection(st1, collection_name, env.create_ok)
        st2    == made2.store
        metadatas == [i \in DOMAIN chunks |-> BuildMetadata(chunks[i])]
        filled == collection_add(st2[collection_name],
                                 [i \in DOMAIN chunks |-> chunks[i].chunk_id],
                                 emb.embeddings, texts, metadatas)
        st3    == [st2 EXCEPT ![collection_name] = filled]
        fail(exc, store, e) ==
            [raised |-> exc, store |-> store, indexed_chunks |-> 0,
             status |-> "", embed_calls |-> e]
        made   == Len(emb.remote_calls) + Len(emb.local_calls)
    IN IF chunks = <<>> THEN fail("ValueError", st, 0)
       ELSE IF emb.raised # "" THEN fail(emb.raised, st, made)
       ELSE IF made2.raised THEN fail("Exception", st2, made)
       ELSE IF ~env.add_ok THEN fail("Exception", st2, made)
       ELSE [raised |-> "", store |-> st3, indexed_chunks |-> Len(chunks),
             status |-> "success", embed_calls |-> made]

\* routes/llm.py: ValueError -> 400, any other exception -> 500
HttpStatus(raised) ==
    IF raised = "" THEN 200 ELSE IF raised = "ValueError" THEN 400 ELSE 500

\* ------------------------------------------------------------------ query_rag

RagPrefix == <<"r", "a", "g", ":">>

NoCalls == [embed |-> 0, index |-> 0, generate |-> 0]

\* what query_rag hands back: the returned tuple, or the exception raised,
\* with the cache afterwards and the external calls made; indexed tells
\* whether get_collection found the collection
QueryReturn(answer, top_chunks, elapsed_ms, from_cache, c, calls, indexed) ==
    [raised |-> "", answer |-> answer, top_chunks |-> top_chunks,
     elapsed_ms |-> elapsed_ms, from_cache |-> from_cache,
     cache |-> c, calls |-> calls, indexed |-> indexed]

QueryRaise(c, calls) ==
    [raised |-> "Exception", answer |-> <<>>, top_chunks |-> <<>>,
     elapsed_ms |-> 0, from_cache |-> FALSE,
     cache |-> c, calls |-> calls, indexed |-> TRUE]

\* lines 181-182: the cache hit
QueryHit(c, cached) ==
    QueryReturn(cached.answer, cached.top_chunks, 0, TRUE, c, NoCalls, FALSE)

\* the guidance message stored in the cache like an answer
QueryNotIndexed_cached(c, cache_key, elapsed) ==
    QueryReturn(GuidanceMessage, <<>>, elapsed, FALSE,
                set_cached_result(c, cache_key, "rag_answer",
                                  [answer |-> GuidanceMessage, top_chunks |-> <<>>]),
                [embed |-> 0, index |-> 1, generate |-> 0], FALSE)

\* lines 186-189: get_collection raised
QueryNotIndexed(c, cache_key, elapsed) ==
    QueryReturn(GuidanceMessage, <<>>, elapsed, FALSE, c,
                [NoCalls EXCEPT !.index = 1], FALSE)

\* lines 257-260 and 277-283: store the result in the cache and return it
QueryStore(c, cache_key, answer, top_chunks, elapsed, calls) ==
    QueryReturn(answer, top_chunks, elapsed, FALSE,
                set_cached_result(c, cache_key, "rag_answer",
                                  [answer |-> answer, top_chunks |-> top_chunks]),
                calls, TRUE)

\* query_rag(question, top_k, keyword_threshold) run against cache c and
\* store st; top_k decides how many results collection.query is asked for
\* (see QueryEnvs). env is what the outside world does during the call:
\*   embed    : "remote", "local" (remote failed, fallback worked) or "raise"
\*   query_ok : collection.query returns
\*   results  : what collection.query returns
\*   answer   : Some(text) returned by generate_content, None when it raises
\*   elapsed  : the measured elapsed_ms
query_rag(c, st, question, threshold, env) ==
    LET cache_key == RagPrefix \o question
        cached    == get_cached_result(c, cache_key, "rag_answer")
    IN IF TruthyDict(cached) THEN QueryHit(c, cached[1])
       ELSE IF ~collection_exists(st, collection_name)
       THEN QueryNotIndexed(c, cache_key, env.elapsed)
       ELSE
       LET collection == st[collection_name]
           all_chunks == [i \in DOMAIN collection.ids |->
                             [chunk_id |-> collection.ids[i],
                              text     |-> collection.documents[i],
                              metadata |-> collection.metadatas[i]]]
           keyword_scores == KeywordScores(question, all_chunks)
           max_keyword    == MaxKeyword(keyword_scores)
           embeds         == IF env.embed = "remote" THEN 1 ELSE 2
           ranked_chunks  == ScoreResults(keyword_scores, env.results)
           top_chunks     == TopChunks(ranked_chunks)
       IN IF env.embed = "raise"
          THEN QueryRaise(c, [embed |-> embeds, index |-> 2, generate |-> 0])
          ELSE IF ~env.query_ok
          THEN QueryRaise(c, [embed |-> embeds, index |-> 3, generate |-> 0])
          ELSE IF Refuse(max_keyword, threshold, top_chunks)
          THEN QueryStore(c, cache_key,
                          IF is_burmese(question)
                          THEN RefusalBurmese ELSE RefusalEnglish,
                          top_chunks, env.elapsed,
                          [embed |-> embeds, index |-> 3, generate |-> 0])
          ELSE IF env.answer = None
          THEN QueryRaise(c, [embed |-> embeds, index |-> 3, generate |-> 1])
          ELSE QueryStore(c, cache_key, env.answer[1], top_chunks, env.elapsed,
                          [embed |-> embeds, index |-> 3, generate |-> 1])

\* clear_index(collection_name): delete_collection raises when the collection
\* does not exist, and the exception becomes {"success": False}
clear_index(st, name) ==
    IF collection_exists(st, name)
    THEN [success |-> TRUE, store |-> delete_collection(st, name)]
    ELSE [success |-> FALSE, store |-> st]

\* ------------------------------------------------------------------ translation, summarization

MinTranslateLen == 10

MinSummaryLen == 20

\* translate_to_burmese(text) run against cache c. env.translated is what
\* call_gemini returns: Some(text), or None when it raises.
translate_to_burmese(c, text, env) ==
    LET cached == get_cached_result(c, text, "translation")
    IN IF text = <<>> \/ Len(Strip(text)) < MinTranslateLen
       THEN [raised |-> "ValueError", translated |-> <<>>, elapsed_ms |-> 0,
             from_cache |-> FALSE, cache |-> c, computes |-> 0]
       ELSE IF TruthyStr(cached)
       THEN [raised |-> "", translated |-> cached[1], elapsed_ms |-> 0,
             from_cache |-> TRUE, cache |-> c, computes |-> 0]
       ELSE IF env.translated = None
       THEN [raised |-> "Exception", translated |-> <<>>, elapsed_ms |-> 0,
             from_cache |-> FALSE, cache |-> c, computes |-> 1]
       ELSE [raised |-> "", translated |-> env.translated[1],
             elapsed_ms |-> env.elapsed, from_cache |-> FALSE,
             cache |-> set_cached_result(c, text, "translation", env.translated[1]),
             computes |-> 1]

\* one summary pass of summarize_text (lines 25-34 for "summary_en", lines
\* 36-45 for "summary_mm"); generated is what call_gemini returns
SummaryPass(c, text, operation, generated, elapsed) ==
    LET cached == get_cached_result(c, text, operation)
    IN IF TruthyStr(cached)
       THEN [raised |-> "", summary |-> cached[1], elapsed_ms |-> 0,
             from_cache |-> TRUE, cache |-> c, computes |-> 0]
       ELSE IF generated = None
       THEN [raised |-> "Exception", summary |-> <<>>, elapsed_ms |-> 0,
             from_cache |-> FALSE, cache |-> c, computes |-> 1]
       ELSE [raised |-> "", summary |-> generated[1], elapsed_ms |-> elapsed,
             from_cache |-> FALSE,
             cache |-> set_cached_result(c, text, operation, generated[1]),
             computes |-> 1]

\* summarize_text(text) run against cache c. env.english and env.burmese are
\* what the two call_gemini calls return, env.elapsed the measured times.
summarize_text(c, text, env) ==
    LET en == SummaryPass(c, text, "summary_en", env.english, env.elapsed)
        mm == SummaryPass(en.cache, text, "summary_mm", env.burmese, env.elapsed)
        raise(exc, c2) == [raised |-> exc, cache |-> c2, en |-> en, mm |-> mm]
    IN IF text = <<>> \/ Len(Strip(text)) < MinSummaryLen
       THEN raise("ValueError", c)
       ELSE IF en.raised # "" THEN raise(en.raised, c)
       ELSE IF mm.raised # "" THEN raise(mm.raised, en.cache)
       ELSE [raised |-> "", cache |-> mm.cache, en |-> en, mm |-> mm]

\* ------------------------------------------------------------------ state

VARIABLES
    chroma_client,  \* the persistent store: collection name -> collection
    cache,          \* cache_service._cache: key -> result
    resp,           \* the last call and what it returned or raised
    inflight,       \* the calls in progress: request id -> its local variables
                    \* and the step it has reached
    hist,           \* per (operation, text) since the last clear_cache: the
                    \* first result returned, the calls completed and the
                    \* expensive computations made (both counted up to MaxCount)
    build_called    \* build_rag_index has been called

vars == <<chroma_client, cache, resp, hist, build_called, inflight>>

MaxCount == 2

MaxElapsed == 1

\* a measured elapsed_ms
ElapsedValues == 0..MaxElapsed

Bump(n, d) == Min(n + d, MaxCount)

\* a completed call under `key` returned `result`, after `computed` runs of
\* the expensive function
Record(h, key, result, computed) ==
    IF key \in DOMAIN h
    THEN [h EXCEPT ![key].calls = Bump(@, 1), ![key].computes = Bump(@, computed)]
    ELSE [k \in DOMAIN h \cup {key} |->
            IF k = key
            THEN [first |-> result, calls |-> 1, computes |-> Bump(0, computed)]
            ELSE h[k]]

Init ==
    /\ chroma_client = <<>>
    /\ cache = <<>>
    /\ resp = [op |-> "init"]
    /\ hist = <<>>
    /\ build_called = FALSE
    /\ inflight = <<>>


\* ------------------------------------------------------------------ the outside world

\* What collection.query(query_embeddings, n_results) can return: n_results
\* distinct stored chunks, nearest first, with their distances
SemanticResults(collection, n_results, dists) ==
    LET m == Len(collection.ids)
        n == n_results
        orders == {o \in [1..n -> 1..m] : \A i, j \in 1..n : o[i] = o[j] => i = j}
        dd     == {d \in [1..n -> dists] : \A i, j \in 1..n : i <= j => d[i] <= d[j]}
    IN {[ids       |-> <<[i \in 1..n |-> collection.ids[o[i]]]>>,
         distances |-> <<d>>,
         documents |-> <<[i \in 1..n |-> collection.documents[o[i]]]>>,
         metadatas |-> <<[i \in 1..n |-> collection.metadatas[o[i]]]>>]
        : o \in orders, d \in dd}

top_k == 5

\* 0.2 in units of 1/60
keyword_threshold == 12

\* the environments of one query_rag call, one per distinguishable course of
\* the call; world bounds what is explored
QueryEnvs(st, world) ==
    LET results == IF collection_exists(st, collection_name)
                   THEN SemanticResults(st[collection_name],
                            Min(top_k, Len(st[collection_name].ids)), world.dists)
                   ELSE {EmptyCollection}
        some    == CHOOSE r \in results : TRUE
        quiet   == CHOOSE a \in world.answers : TRUE
        instant == CHOOSE e \in world.elapsed : TRUE
    IN  \* the question cannot be embedded
        [embed : world.embeds \cap {"raise"}, query_ok : {TRUE}, results : {some},
         answer : {quiet}, elapsed : {instant}]
        \cup
        \* collection.query raises
        [embed : world.embeds \ {"raise"}, query_ok : world.query_oks \ {TRUE},
         results : {some}, answer : {quiet}, elapsed : {instant}]
        \cup
        \* retrieval works; generation returns or raises
        [embed : world.embeds \ {"raise"}, query_ok : world.query_oks \cap {TRUE},
         results : results, answer : world.answers, elapsed : world.elapsed]

OkEmbed == [api_key |-> TRUE, remote_fail |-> 0, local_ok |-> TRUE]

\* the environments of one build_rag_index call, one per distinguishable
\* course of the call
BuildEnvs(world) ==
    \* embedding: no key, remote works, remote fails at some text (fallback
    \* works or not); the store works
    [embed : [api_key : world.api_keys, remote_fail : {0}, local_ok : {TRUE}]
             \cup [api_key : world.api_keys \cap {TRUE},
                   remote_fail : world.remote_fails, local_ok : world.local_oks],
     delete_ok : {TRUE}, create_ok : {TRUE}, add_ok : {TRUE}]
    \cup
    \* embedding works; the store fails at delete, create or add
    {e \in [embed : {OkEmbed}, delete_ok : world.store_oks,
            create_ok : world.store_oks, add_ok : world.store_oks] :
        Cardinality({x \in {"delete", "create", "add"} :
                        \/ x = "delete" /\ ~e.delete_ok
                        \/ x = "create" /\ ~e.create_ok
                        \/ x = "add" /\ ~e.add_ok}) = 1}

\* ------------------------------------------------------------------ handlers

\* POST /api/llm/rag/index -> build_rag_index
Build(inputs, world) ==
    \E inp \in inputs, env \in BuildEnvs(world) :
        LET r == build_rag_index(chroma_client, inp.transcript_text, inp.segments, env)
        IN /\ chroma_client' = r.store
           /\ resp' = [op |-> "build_rag_index",
                       transcript_text |-> inp.transcript_text,
                       segments |-> inp.segments,
                       raised |-> r.raised,
                       http_status |-> HttpStatus(r.raised),
                       indexed_chunks |-> r.indexed_chunks,
                       status |-> r.status,
                       embed_calls |-> r.embed_calls]
           /\ build_called' = TRUE
           /\ UNCHANGED <<cache, hist, inflight>>

\* POST /api/llm/rag/query -> query_rag(question)
Query(questions, world) ==
    \E question \in questions :
      \E env \in QueryEnvs(chroma_client, world) :
        LET r == query_rag(cache, chroma_client, question, keyword_threshold, env)
            key == <<"rag_answer", question>>
            answered == r.raised = "" /\ (r.from_cache \/ r.indexed)
        IN /\ cache' = r.cache
           /\ resp' = [op |-> "query_rag",
                       question |-> question,
                       raised |-> r.raised,
                       http_status |-> HttpStatus(r.raised),
                       answer |-> r.answer,
                       top_chunks |-> r.top_chunks,
                       elapsed_ms |-> r.elapsed_ms,
                       from_cache |-> r.from_cache,
                       indexed |-> r.indexed,
                       calls |-> r.calls,
                       results |-> IF r.indexed /\ env.embed # "raise" /\ env.query_ok
                                   THEN Some(env.results) ELSE None]
           /\ hist' = IF answered
                      THEN Record(hist, key,
                                  [answer |-> r.answer, top_chunks |-> r.top_chunks],
                                  IF r.from_cache THEN 0 ELSE 1)
                      ELSE hist
           /\ UNCHANGED <<chroma_client, build_called, inflight>>

\* clear_index(name); clear_index() uses default_collection_name
ClearIndex ==
    \E name \in {default_collection_name, collection_name} :
        LET r == clear_index(chroma_client, name)
        IN /\ chroma_client' = r.store
           /\ resp' = [op |-> "clear_index", name |-> name, success |-> r.success,
                       had_index |-> collection_exists(chroma_client, collection_name)]
           /\ UNCHANGED <<cache, hist, build_called, inflight>>

\* clear_cache()
ClearCache ==
    /\ cache' = clear_cache(cache)
    /\ hist' = <<>>
    /\ resp' = [op |-> "clear_cache"]
    /\ UNCHANGED <<chroma_client, build_called, inflight>>

\* POST /api/llm/translate -> translate_to_burmese(text)
Translate(texts, world) ==
    \E text \in texts, translated \in world.answers, elapsed \in world.elapsed :
        LET r == translate_to_burmese(cache, text,
                     [translated |-> translated, elapsed |-> elapsed])
        IN /\ cache' = r.cache
           /\ resp' = [op |-> "translate_to_burmese", text |-> text,
                       raised |-> r.raised, http_status |-> HttpStatus(r.raised),
                       translated |-> r.translated, elapsed_ms |-> r.elapsed_ms,
                       from_cache |-> r.from_cache, computes |-> r.computes]
           /\ hist' = IF r.raised = ""
                      THEN Record(hist, <<"translation", text>>,
                                  r.translated, r.computes)
                      ELSE hist
           /\ UNCHANGED <<chroma_client, build_called, inflight>>

\* POST /api/llm/summarize -> summarize_text(text)
Summarize(texts, world) ==
    \E text \in texts, english \in world.answers, burmese \in world.answers,
       elapsed \in world.elapsed :
        LET r == summarize_text(cache, text,
                     [english |-> english, burmese |-> burmese, elapsed |-> elapsed])
            ok == r.raised = ""
        IN /\ cache' = r.cache
           /\ resp' = [op |-> "summarize_text", text |-> text,
                       raised |-> r.raised, http_status |-> HttpStatus(r.raised),
                       english_summary |-> IF ok THEN r.en.summary ELSE <<>>,
                       burmese_summary |-> IF ok THEN r.mm.summary ELSE <<>>,
                       en_elapsed_ms |-> IF ok THEN r.en.elapsed_ms ELSE 0,
                       en_from_cache |-> ok /\ r.en.from_cache,
                       mm_elapsed_ms |-> IF ok THEN r.mm.elapsed_ms ELSE 0,
                       mm_from_cache |-> ok /\ r.mm.from_cache,
                       from_cache |-> ok /\ r.en.from_cache /\ r.mm.from_cache]
           /\ hist' = IF ok
                      THEN Record(Record(hist, <<"summary_en", text>>,
                                         r.en.summary, r.en.computes),
                                  <<"summary_mm", text>>,
                                  r.mm.summary, r.mm.computes)
                      ELSE hist
           /\ UNCHANGED <<chroma_client, build_called, inflight>>


\* ------------------------------------------------------------------ inputs

Rep(ch, n) == [i \in 1..n |-> ch]

Segment(text, start, end) == [text |-> text, start |-> start, end |-> end]

\* "a b. c": two sentences, one window
TextProse == <<"a", " ", "b", ".", " ", "c">>

\* "a", 0-5 and "B c", 5-10
TwoSegments ==
    SegmentList(<<Segment(<<"a">>, Some(0), Some(5)),
                  Segment(<<"B", " ", "c">>, Some(5), Some(10))>>)

BuildInputs ==
    { [transcript_text |-> <<>>,             segments |-> NoSegments],
      [transcript_text |-> <<" ", "\n">>,    segments |-> SegmentList(<<>>)],
      [transcript_text |-> <<>>,
       segments |-> SegmentList(<<Segment(<<"a">>, Some(0), Some(5))>>)],
      [transcript_text |-> TextProse,        segments |-> NoSegments],
      [transcript_text |-> TextProse,        segments |-> TwoSegments] }

\* "a" meets a stored word, "d" meets none
Questions == { <<"a">>, <<"d">> }

\* what generate_content / call_gemini can do: raise, return "", return text
Answers == { None, Some(<<>>), Some(<<"x">>) }

World ==
    [dists        |-> {90},
     embeds       |-> {"remote", "local", "raise"},
     query_oks    |-> BOOLEAN,
     answers      |-> Answers,
     elapsed      |-> ElapsedValues,
     api_keys     |-> BOOLEAN,
     remote_fails |-> {0, 1},
     local_oks    |-> BOOLEAN,
     store_oks    |-> BOOLEAN]

\* ------------------------------------------------------------------ specifications

\* the RAG deployment: index, query, clear
Next ==
    \/ Build(BuildInputs, World)
    \/ Query(Questions, World)
    \/ ClearIndex
    \/ ClearCache

Spec == Init /\ [][Next]_vars

\* ---- translation and summarization against the cache

\* 9, 10 and 20 letters: too short for both, long enough to translate, long
\* enough for both
LlmTexts == { Rep("a", 9), Rep("a", 10), Rep("a", 20) }

\* generation raises, returns the empty string, or returns a text
LlmWorld == [answers |-> Answers, elapsed |-> {1}]

NextLlm ==
    \/ Translate(LlmTexts, LlmWorld)
    \/ Summarize(LlmTexts, LlmWorld)
    \/ ClearCache

SpecLlm == Init /\ [][NextLlm]_vars

\* ---- one query against a built index: ranking and the relevance gate

\* six one-chunk segments; their words meet the questions below in 0, 1 or 2
\* words
SixSegments ==
    SegmentList(<<Segment(<<"a">>, Some(0), Some(1)),
                  Segment(<<"b">>, Some(1), Some(2)),
                  Segment(<<"A", " ", "b">>, Some(2), Some(3)),
                  Segment(<<"x">>, Some(3), Some(4)),
                  Segment(<<"y">>, Some(4), Some(5)),
                  Segment(<<"e", " ", "x">>, Some(5), Some(6))>>)

StoreOk == [embed |-> OkEmbed, delete_ok |-> TRUE, create_ok |-> TRUE, add_ok |-> TRUE]

\* the stores a build leaves behind: six chunks, two chunks, one chunk, and
\* the empty collection of a build whose add failed
RankStores ==
    { build_rag_index(<<>>, <<>>, SixSegments, StoreOk).store,
      build_rag_index(<<>>, <<>>, TwoSegments, StoreOk).store,
      build_rag_index(<<>>, TextProse, NoSegments, StoreOk).store,
      build_rag_index(<<>>, TextProse, NoSegments,
                      [StoreOk EXCEPT !.add_ok = FALSE]).store }

\* "a b" (two words), "a c d f g" (five words, one of them stored),
\* "z" (no stored word), a Burmese word, and the empty question
RankQuestions ==
    { <<"a", " ", "b">>,
      <<"a", " ", "c", " ", "d", " ", "f", " ", "g">>,
      <<"z">>,
      <<"U+1019">>,
      <<>> }

RankWorld ==
    [dists     |-> {50, 90},
     embeds    |-> {"remote"},
     query_oks |-> BOOLEAN,
     answers   |-> {None, Some(<<"x">>)},
     elapsed   |-> {1}]

InitRank ==
    /\ chroma_client \in RankStores
    /\ cache = <<>>
    /\ resp = [op |-> "init"]
    /\ hist = <<>>
    /\ build_called = TRUE
    /\ inflight = <<>>

\* the first query of a deployment
FirstQuery == cache = <<>> /\ resp.op = "init" /\ Query(RankQuestions, RankWorld)

NextRank == FirstQuery

SpecRank == InitRank /\ [][NextRank]_vars

\* ---- one build: chunking and what is stored

MaxTextLen == 4

RECURSIVE TextsUpTo(_)
TextsUpTo(n) ==
    IF n = 0 THEN {<<>>}
    ELSE LET shorter == TextsUpTo(n - 1)
         IN shorter \cup {Append(t, ch) : t \in {u \in shorter : Len(u) = n - 1},
                                           ch \in {"a", ".", " "}}

\* n sentences "a.", one blank between them
RECURSIVE Sentences(_)
Sentences(n) ==
    IF n = 0 THEN <<>>
    ELSE IF n = 1 THEN <<"a", ".">>
    ELSE Sentences(n - 1) \o <<" ", "a", ".">>

ChunkTexts == TextsUpTo(MaxTextLen) \cup {Sentences(4), Sentences(6), Sentences(9)}

ChunkSegments ==
    { NoSegments,
      SegmentList(<<>>),
      SegmentList(<<Segment(<<"a">>, Some(0), Some(5))>>),
      TwoSegments,
      SegmentList(<<Segment(<<>>, None, Some(5)),
                    [text |-> <<"b">>, end |-> None],
                    [start |-> Some(0)]>>) }

ChunkInputs == [transcript_text : ChunkTexts, segments : ChunkSegments]

ChunkWorld ==
    [api_keys     |-> {TRUE},
     remote_fails |-> {0, 1},
     local_oks    |-> {TRUE},
     store_oks    |-> {TRUE}]

\* the first build of a deployment
FirstBuild == ~build_called /\ Build(ChunkInputs, ChunkWorld)

NextChunk == FirstBuild

SpecChunk == Init /\ [][NextChunk]_vars


\* ------------------------------------------------------------------ claims

Indexed == collection_exists(chroma_client, collection_name)

\* the last call was a query_rag call that returned an answer or a refusal,
\* computed or from the cache
Answered ==
    /\ resp.op = "query_rag"
    /\ resp.raised = ""
    /\ (resp.from_cache \/ resp.indexed)

\* C2: the first query_rag call for a question that returns a refusal or a
\* generated answer reports from_cache = False; every later call with the
\* same question, until clear_cache, reports from_cache = True and elapsed 0,
\* returns the answer and top_chunks of that first call, and makes no
\* embedding call, no index read and no generation call.
C2_RepeatedQuestionServedFromCache ==
    Answered =>
        LET h == hist[<<"rag_answer", resp.question>>]
        IN /\ h.calls = 1 => ~resp.from_cache /\ h.computes = 1
           /\ h.calls >= 2 =>
                 /\ resp.from_cache
                 /\ resp.elapsed_ms = 0
                 /\ resp.answer = h.first.answer
                 /\ resp.top_chunks = h.first.top_chunks
                 /\ resp.calls = NoCalls
                 /\ h.computes = 1

\* a repeated question is answered from the cache while the index exists,
\* and the answer served is an empty generated text
C2_Witness ==
    /\ Answered
    /\ Indexed
    /\ hist[<<"rag_answer", resp.question>>].calls >= 2
    /\ resp.from_cache
    /\ resp.answer = <<>>
    /\ resp.top_chunks # <<>>

\* C3: a query made before any build_rag_index call returns the guidance
\* message with no top chunks and from_cache = False, raises nothing, makes
\* no embedding or generation call and leaves the cache as it was; the
\* guidance message is never a cached answer, so a query that finds the
\* collection is computed against it.
C3_QueryBeforeIndexGivesGuidance ==
    [][ /\ (resp'.op = "query_rag" /\ ~build_called) =>
              /\ resp'.raised = ""
              /\ resp'.http_status = 200
              /\ resp'.answer = GuidanceMessage
              /\ resp'.top_chunks = <<>>
              /\ ~resp'.from_cache
              /\ resp'.calls.embed = 0
              /\ resp'.calls.generate = 0
              /\ cache' = cache
        /\ (resp'.op = "query_rag" /\ ~Indexed /\ ~resp'.from_cache) =>
              /\ resp'.answer = GuidanceMessage
              /\ resp'.top_chunks = <<>>
              /\ cache' = cache
        /\ \A k \in DOMAIN cache' : cache'[k].answer # GuidanceMessage
        /\ (resp'.op = "query_rag" /\ Indexed /\ resp'.raised = ""
            /\ ~resp'.from_cache) =>
              /\ resp'.answer # GuidanceMessage
              /\ resp'.indexed
      ]_vars

\* a question that got the guidance message before the first build is asked
\* again after a build and is answered from the new index
C3_Witness ==
    /\ resp.op = "query_rag"
    /\ resp.question \in {k[2] : k \in DOMAIN hist}
    /\ hist[<<"rag_answer", resp.question>>].calls = 1
    /\ resp.indexed
    /\ ~resp.from_cache
    /\ resp.answer = <<"x">>


\* store st holds, under collection_name, exactly the chunks of this build
\* input: ids, texts, one embedding per text, metadata without None
HoldsBuildOf(st, transcript_text, segments) ==
    LET chunks == ChooseChunks(transcript_text, segments)
        coll   == st[collection_name]
    IN /\ collection_exists(st, collection_name)
       /\ chunks # <<>>
       /\ coll.ids = [i \in DOMAIN chunks |-> chunks[i].chunk_id]
       /\ coll.documents = [i \in DOMAIN chunks |-> chunks[i].text]
       /\ Len(coll.embeddings) = Len(chunks)
       /\ Len(coll.metadatas) = Len(chunks)
       /\ \A i \in DOMAIN chunks :
             /\ coll.embeddings[i].content = chunks[i].text
             /\ \A j \in DOMAIN chunks :
                   coll.embeddings[j].provider = coll.embeddings[i].provider
             /\ coll.metadatas[i]["source_type"] = <<chunks[i].source_type>>
             /\ Get(coll.metadatas[i], "start_time", None) = chunks[i].start_time
             /\ Get(coll.metadatas[i], "end_time", None) = chunks[i].end_time
             /\ \A k \in DOMAIN coll.metadatas[i] : coll.metadatas[i][k] # None

\* C4 (as claimed): after clear_index() on a deployment whose index was built,
\* the collection built by build_rag_index no longer exists.
C4_ClearIndexRemovesBuiltIndex ==
    (/\ resp.op = "clear_index"
     /\ resp.name = default_collection_name
     /\ resp.had_index)
    => ~Indexed

\* C5: when a build_rag_index call returns, the stored collection holds
\* exactly the chunks of that call's input (ids, texts, metadata, one
\* embedding each), nothing of an earlier build, and indexed_chunks is the
\* number of stored chunks; there is never more than one collection.
C5_IndexHoldsExactlyLastBuild ==
    /\ Cardinality(DOMAIN chroma_client) <= 1
    /\ (resp.op = "build_rag_index" /\ resp.raised = "") =>
          /\ HoldsBuildOf(chroma_client, resp.transcript_text, resp.segments)
          /\ resp.indexed_chunks = Len(chroma_client[collection_name].ids)
          /\ resp.status = "success"
          /\ resp.http_status = 200

\* a build from two segments returned while the cache still holds an answer
\* computed from the text chunks of an earlier build
C5_Witness ==
    /\ resp.op = "build_rag_index"
    /\ resp.raised = ""
    /\ resp.segments = TwoSegments
    /\ \E k \in DOMAIN cache :
          /\ cache[k].top_chunks # <<>>
          /\ cache[k].top_chunks[1].chunk_id = <<"text_", 0>>

\* C6 (as claimed): whatever a build_rag_index call does, return or raise, it
\* leaves the store as it was or holding the complete new generation.
C6_BuildIsAtomic ==
    [][ resp'.op = "build_rag_index" =>
           \/ chroma_client' = chroma_client
           \/ HoldsBuildOf(chroma_client', resp'.transcript_text, resp'.segments)
      ]_vars

\* the transcript has no character outside whitespace and at most one segment
\* is given: nothing to chunk
NothingToChunk(transcript_text, segments) ==
    /\ segments.is_none \/ Len(segments.items) <= 1
    /\ \A i \in DOMAIN transcript_text : transcript_text[i] \in Whitespace

\* C10: a build_rag_index call whose chunking yields no chunks raises
\* ValueError (HTTP 400), makes no embedding call and leaves the store and
\* the cache as they were.
C10_EmptyBuildFailsCleanly ==
    [][ (/\ resp'.op = "build_rag_index"
         /\ \/ NothingToChunk(resp'.transcript_text, resp'.segments)
            \/ ChooseChunks(resp'.transcript_text, resp'.segments) = <<>>)
        => /\ resp'.raised = "ValueError"
           /\ resp'.http_status = 400
           /\ resp'.embed_calls = 0
           /\ chroma_client' = chroma_client
           /\ cache' = cache
      ]_vars

\* a whitespace-only transcript is refused while an index and cached answers
\* exist
C10_Witness ==
    /\ resp.op = "build_rag_index"
    /\ resp.transcript_text # <<>>
    /\ NothingToChunk(resp.transcript_text, resp.segments)
    /\ resp.raised = "ValueError"
    /\ Indexed
    /\ chroma_client[collection_name].ids # <<>>
    /\ cache # <<>>

\* ------------------------------------------------------------------ cache idempotence

\* the last call completed, and a call under the same (operation, text)
\* completed before it, with no clear_cache in between
Repeated(operation, text) ==
    /\ <<operation, text>> \in DOMAIN hist
    /\ hist[<<operation, text>>].calls >= 2

\* C1: for each cached operation (translation, summary_en, summary_mm,
\* rag_answer) and whatever the expensive function returns, calls repeated
\* with the same (operation, text) and no clear in between run the expensive
\* function at most once in total, and the repeated call reports from_cache
\* with elapsed time 0 and returns the result of the first call.
C1_CacheIdempotence ==
    /\ \A k \in DOMAIN hist : hist[k].computes <= 1
    /\ (resp.op = "translate_to_burmese" /\ resp.raised = ""
        /\ Repeated("translation", resp.text))
       => /\ resp.from_cache
          /\ resp.elapsed_ms = 0
          /\ resp.translated = hist[<<"translation", resp.text>>].first
    /\ (resp.op = "summarize_text" /\ resp.raised = ""
        /\ Repeated("summary_en", resp.text))
       => /\ resp.en_from_cache
          /\ resp.en_elapsed_ms = 0
          /\ resp.english_summary = hist[<<"summary_en", resp.text>>].first
    /\ (resp.op = "summarize_text" /\ resp.raised = ""
        /\ Repeated("summary_mm", resp.text))
       => /\ resp.mm_from_cache
          /\ resp.mm_elapsed_ms = 0
          /\ resp.burmese_summary = hist[<<"summary_mm", resp.text>>].first
    /\ (resp.op = "query_rag" /\ resp.raised = "" /\ (resp.from_cache \/ resp.indexed)
        /\ Repeated("rag_answer", resp.question))
       => /\ resp.from_cache
          /\ resp.elapsed_ms = 0
          /\ resp.answer = hist[<<"rag_answer", resp.question>>].first.answer
          /\ resp.top_chunks = hist[<<"rag_answer", resp.question>>].first.top_chunks

\* ------------------------------------------------------------------ relevance gate and ranking

\* the last call was a query that missed the cache, found the index and got
\* its semantic results
Retrieved ==
    /\ resp.op = "query_rag"
    /\ ~resp.from_cache
    /\ resp.indexed
    /\ resp.results # None

\* words of the question, and those of them that occur in a text
QuestionWords(question) == WordSet(Lower(question))

SharedWords(question, text) == QuestionWords(question) \cap WordSet(Lower(text))

\* keyword score of a text strictly below 0.2: shared / asked < 1/5
KeywordBelowThreshold(question, text) ==
    \/ QuestionWords(question) = {}
    \/ 5 * Cardinality(SharedWords(question, text)) < Cardinality(QuestionWords(question))

\* 0.4 x keywordScore + 0.6 x (1 - distance) of the j-th semantic result, in
\* units of 1/6000; distances are in units of 1/100
Combined6000(question, results, j) ==
    LET asked  == Cardinality(QuestionWords(question))
        shared == Cardinality(SharedWords(question, results.documents[1][j]))
    IN (IF asked = 0 THEN 0 ELSE (2400 * shared) \div asked)
       + 36 * (100 - results.distances[1][j])

\* C7: a query that misses the cache against an existing index is refused
\* (the fixed refusal message in the language of the question, no generation
\* call) exactly when the keyword score of every stored chunk is strictly
\* below 0.2 and no semantic result has a combined score of 0.3 or more;
\* otherwise generation is called exactly once.
C7_RelevanceGate ==
    Retrieved =>
        LET question == resp.question
            results  == resp.results[1]
            stored   == chroma_client[collection_name].documents
            gate     == /\ \A i \in DOMAIN stored :
                              KeywordBelowThreshold(question, stored[i])
                        /\ \A j \in DOMAIN results.ids[1] :
                              Combined6000(question, results, j) < 1800
        IN /\ gate => /\ resp.raised = ""
                      /\ resp.calls.generate = 0
                      /\ resp.answer = IF is_burmese(question)
                                       THEN RefusalBurmese ELSE RefusalEnglish
           /\ ~gate => resp.calls.generate = 1

\* the keyword boundary is met and answered: one word in five of the question
\* is stored (keyword score exactly 0.2) while every combined score is below
\* 0.3
C7_Witness ==
    /\ Retrieved
    /\ resp.raised = ""
    /\ resp.calls.generate = 1
    /\ resp.answer = <<"x">>
    /\ resp.top_chunks # <<>>
    /\ Cardinality(QuestionWords(resp.question)) = 5
    /\ \E i \in DOMAIN chroma_client[collection_name].documents :
          Cardinality(SharedWords(resp.question,
              chroma_client[collection_name].documents[i])) = 1
    /\ \A j \in DOMAIN resp.results[1].ids[1] :
          Combined6000(resp.question, resp.results[1], j) < 1800

\* C8: the top_chunks a query returns are in non-increasing order of combined
\* score, number min(3, semantic results), each is a different semantic
\* result carrying that result's id, text and combined score, and no
\* semantic result left out scores higher than a returned one.
C8_TopChunksRanked ==
    (Retrieved /\ resp.raised = "") =>
        LET top     == resp.top_chunks
            results == resp.results[1]
            n       == Len(results.ids[1])
            score(j) == Combined6000(resp.question, results, j)
        IN /\ Len(top) <= 3
           /\ Len(top) = Min(3, n)
           /\ \A i, j \in DOMAIN top : i < j => top[i].score >= top[j].score
           /\ \E pick \in [DOMAIN top -> 1..n] :
                 /\ \A i, j \in DOMAIN top : pick[i] = pick[j] => i = j
                 /\ \A i \in DOMAIN top :
                       /\ top[i].chunk_id = results.ids[1][pick[i]]
                       /\ top[i].text = results.documents[1][pick[i]]
                       /\ top[i].score = score(pick[i])
                 /\ \A j \in 1..n :
                       (\A i \in DOMAIN top : pick[i] # j)
                       => \A i \in DOMAIN top : score(j) <= top[i].score

\* six chunks are stored and five returned; the stored chunk holding every
\* word of the question is not among them and stays out of the top three,
\* which are not in the order of the semantic results
C8_Witness ==
    /\ Retrieved
    /\ resp.raised = ""
    /\ Len(chroma_client[collection_name].ids) = 6
    /\ Len(resp.results[1].ids[1]) = 5
    /\ Len(resp.top_chunks) = 3
    /\ \E i \in DOMAIN chroma_client[collection_name].ids :
          /\ SharedWords(resp.question, chroma_client[collection_name].documents[i])
                = QuestionWords(resp.question)
          /\ QuestionWords(resp.question) # {}
          /\ \A j \in DOMAIN resp.results[1].ids[1] :
                resp.results[1].ids[1][j] # chroma_client[collection_name].ids[i]
    /\ resp.top_chunks[1].chunk_id # resp.results[1].ids[1][1]
    /\ resp.top_chunks[1].score > resp.top_chunks[3].score

\* ------------------------------------------------------------------ chunking strategy

\* C9: a build that succeeds stores one chunk per segment, in order, with id
\* seg_<i>, source_type asr_segment and the segment's text, start and end
\* (a start of 0 included) exactly when more than one segment is given;
\* otherwise it stores text-window chunks text_<i> of the transcript text
\* without start or end. The ids of one build are pairwise distinct.
C9_ChunkingStrategy ==
    (resp.op = "build_rag_index" /\ resp.raised = "") =>
        LET stored == chroma_client[collection_name]
            items  == resp.segments.items
            many   == ~resp.segments.is_none /\ Len(items) > 1
        IN /\ \A i, j \in DOMAIN stored.ids : stored.ids[i] = stored.ids[j] => i = j
           /\ resp.indexed_chunks = Len(stored.ids)
           /\ Len(stored.ids) > 0
           /\ many =>
                /\ Len(stored.ids) = Len(items)
                /\ \A i \in DOMAIN items :
                      LET md == stored.metadatas[i]
                      IN /\ stored.ids[i] = <<"seg_", i - 1>>
                         /\ stored.documents[i] = Get(items[i], "text", <<>>)
                         /\ md["source_type"] = <<"asr_segment">>
                         /\ IF Get(items[i], "start", None) = None
                            THEN "start_time" \notin DOMAIN md
                            ELSE md["start_time"] = items[i].start
                         /\ IF Get(items[i], "end", None) = None
                            THEN "end_time" \notin DOMAIN md
                            ELSE md["end_time"] = items[i].end
           /\ ~many =>
                \A i \in DOMAIN stored.ids :
                   /\ stored.ids[i][1] = "text_"
                   /\ stored.ids[i][2] \in 0..Len(resp.transcript_text)
                   /\ DOMAIN stored.metadatas[i] = {"source_type"}
                   /\ stored.metadatas[i]["source_type"] = <<"text_chunk">>
                   /\ Strip(stored.documents[i]) # <<>>
                   /\ WordSet(stored.documents[i]) \subseteq WordSet(resp.transcript_text)

\* two segments, the first starting at 0, are stored with their times
C9_Witness ==
    /\ resp.op = "build_rag_index"
    /\ resp.raised = ""
    /\ resp.segments = TwoSegments
    /\ chroma_client[collection_name].ids = << <<"seg_", 0>>, <<"seg_", 1>> >>
    /\ chroma_client[collection_name].metadatas[1]["start_time"] = Some(0)

\* ------------------------------------------------------------------ embedding calls

\* lines 206-218 of query_rag: the question is truncated once, and the
\* truncated question goes to the remote model and, when that fails, to the
\* local one. env.embed: "remote", "local" (remote failed, fallback worked)
\* or "raise" (both failed).
embed_question(question, env) ==
    LET truncated_question == Truncate(question)
    IN [raised       |-> IF env.embed = "raise" THEN "Exception" ELSE "",
        remote_calls |-> <<truncated_question>>,
        local_calls  |-> IF env.embed = "remote" THEN <<>> ELSE <<truncated_question>>,
        embeddings   |-> IF env.embed = "raise" THEN <<>>
                         ELSE <<[provider |-> env.embed, content |-> truncated_question]>>]

MaxBatch == 3

\* a short text, another, a text of exactly the limit and one a character
\* longer
EmbedTexts ==
    { <<"a">>, <<"b", "c">>, Rep("a", EmbedLimit), Rep("a", EmbedLimit) \o <<"b">> }

RECURSIVE BatchesUpTo(_)
BatchesUpTo(n) ==
    IF n = 0 THEN {<<>>}
    ELSE LET shorter == BatchesUpTo(n - 1)
         IN shorter \cup {Append(b, t) : b \in {u \in shorter : Len(u) = n - 1},
                                           t \in EmbedTexts}

\* batches with at most one long text, which is enough to tell every position
\* of a batch apart
EmbedBatches ==
    {b \in BatchesUpTo(MaxBatch) :
        Cardinality({i \in DOMAIN b : Len(b[i]) >= EmbedLimit}) <= 1}

EmbedEnvs == [api_key : BOOLEAN, remote_fail : 0..MaxBatch, local_ok : BOOLEAN]

\* compute_embeddings(texts)
Embed ==
    \E texts \in EmbedBatches, env \in EmbedEnvs :
        LET r == compute_embeddings(texts, env)
        IN /\ resp' = [op |-> "compute_embeddings", texts |-> texts,
                       remote_failed |-> env.api_key /\ env.remote_fail \in 1..Len(texts),
                       failed_at |-> env.remote_fail,
                       raised |-> r.raised, embeddings |-> r.embeddings,
                       remote_calls |-> r.remote_calls, local_calls |-> r.local_calls]
           /\ UNCHANGED <<chroma_client, cache, hist, build_called, inflight>>

\* the embedding of the question inside query_rag
EmbedQuestion ==
    \E question \in EmbedTexts, embed \in {"remote", "local", "raise"} :
        LET r == embed_question(question, [embed |-> embed])
        IN /\ resp' = [op |-> "embed_question", texts |-> <<question>>,
                       remote_failed |-> embed # "remote",
                       failed_at |-> IF embed = "remote" THEN 0 ELSE 1,
                       raised |-> r.raised, embeddings |-> r.embeddings,
                       remote_calls |-> r.remote_calls, local_calls |-> r.local_calls]
           /\ UNCHANGED <<chroma_client, cache, hist, build_called, inflight>>

\* one embedding call on a fresh process
NextEmbed == resp.op = "init" /\ (Embed \/ EmbedQuestion)

SpecEmbed == Init /\ [][NextEmbed]_vars

\* C11: when the remote embedding call fails at any position of the batch
\* and compute_embeddings still returns, every returned vector comes from the
\* local model; whenever it returns there is one vector per input text, in
\* input order, all from one provider.
C11_EmbeddingFallbackWholeBatch ==
    (resp.op = "compute_embeddings" /\ resp.raised = "") =>
        /\ Len(resp.embeddings) = Len(resp.texts)
        /\ \A i \in DOMAIN resp.texts :
              resp.embeddings[i].content \in {resp.texts[i], Prefix(resp.texts[i], EmbedLimit)}
        /\ \A i, j \in DOMAIN resp.embeddings :
              resp.embeddings[i].provider = resp.embeddings[j].provider
        /\ resp.remote_failed =>
              \A i \in DOMAIN resp.embeddings : resp.embeddings[i].provider = "local"
        /\ (~resp.remote_failed) =>
              \A i \in DOMAIN resp.embeddings : resp.embeddings[i].provider = "remote"

\* the remote call fails at the middle text of three, after one vector was
\* obtained remotely, and the three vectors returned are local
C11_Witness ==
    /\ resp.op = "compute_embeddings"
    /\ resp.raised = ""
    /\ Len(resp.texts) = 3
    /\ resp.failed_at = 2
    /\ Len(resp.remote_calls) = 2
    /\ \A i \in 1..3 : resp.embeddings[i].provider = "local"
    /\ resp.texts[1] # resp.texts[3]

\* C12 (as claimed): every text handed to an embedding model, remote or
\* local, for a chunk or for a question, is at most 8000 characters long and
\* is the first 8000 characters of the input it was made from.
C12_EmbeddedTextsAreTruncated ==
    resp.op \in {"compute_embeddings", "embed_question"} =>
        /\ \A i \in DOMAIN resp.remote_calls :
              /\ Len(resp.remote_calls[i]) <= 8000
              /\ resp.remote_calls[i] = Prefix(resp.texts[i], 8000)
        /\ \A i \in DOMAIN resp.local_calls :
              /\ Len(resp.local_calls[i]) <= 8000
              /\ resp.local_calls[i] = Prefix(resp.texts[i], 8000)

\* ------------------------------------------------------------------ text-window chunking

MaxSentences == 10

Letters == <<"a", "b", "c", "d", "e", "f", "g", "h", "i", "j", "k", "l">>

\* n different sentences "a.", "b.", ... with one blank between them
RECURSIVE NumberedSentences(_)
NumberedSentences(n) ==
    IF n = 0 THEN <<>>
    ELSE IF n = 1 THEN <<Letters[1], ".">>
    ELSE NumberedSentences(n - 1) \o <<" ", Letters[n], ".">>

WindowTexts == TextsUpTo(MaxTextLen) \cup {NumberedSentences(n) : n \in 1..MaxSentences}

\* chunk_transcript_by_text(text)
ChunkText ==
    \E text \in WindowTexts :
        /\ resp' = [op |-> "chunk_transcript_by_text", text |-> text,
                    sentences |-> SplitSentences(text),
                    chunks |-> chunk_transcript_by_text(text)]
        /\ UNCHANGED <<chroma_client, cache, hist, build_called, inflight>>

\* one chunking call on a fresh process
NextText == resp.op = "init" /\ ChunkText

SpecText == Init /\ [][NextText]_vars

\* chunk c is the window of five sentences (fewer at the end) that starts at
\* the sentence its id names: the sentences in source order, joined by blanks
IsWindow(c, sentences) ==
    LET i == c.chunk_id[2]
    IN /\ c.chunk_id[1] = "text_"
       /\ i \in 0..(Len(sentences) - 1)
       /\ c.text = Join(SubSeq(sentences, i + 1, Min(i + 5, Len(sentences))), <<" ">>)

\* every sentence lies in the window of some chunk, and two chunks in a row
\* that are both full windows share exactly two sentences
CoversEverySentence(chunks, sentences) ==
    /\ \A j \in DOMAIN chunks : IsWindow(chunks[j], sentences)
    /\ \A k \in DOMAIN sentences :
          \E j \in DOMAIN chunks :
             k \in (chunks[j].chunk_id[2] + 1)..(chunks[j].chunk_id[2] + 5)
    /\ \A j \in DOMAIN chunks :
          (/\ j + 1 \in DOMAIN chunks
           /\ chunks[j].chunk_id[2] + 5 <= Len(sentences)
           /\ chunks[j + 1].chunk_id[2] + 5 <= Len(sentences))
          => Cardinality(((chunks[j].chunk_id[2] + 1)..(chunks[j].chunk_id[2] + 5))
                         \cap ((chunks[j + 1].chunk_id[2] + 1)..(chunks[j + 1].chunk_id[2] + 5)))
             = 2

\* C13 (as claimed): for any non-empty transcript text the chunks of
\* chunk_transcript_by_text cover every sentence of the sentence split,
\* consecutive full windows share exactly two sentences, and the sentences
\* keep their order inside each chunk.
C13_EveryNonEmptyTextCovered ==
    (resp.op = "chunk_transcript_by_text" /\ resp.text # <<>>)
    => CoversEverySentence(resp.chunks, resp.sentences)

\* C13 (amended): the same for any transcript text that holds a character
\* other than whitespace; a text of whitespace only yields no chunk at all.
C13_EveryNonBlankTextCovered ==
    resp.op = "chunk_transcript_by_text" =>
        /\ (\E i \in DOMAIN resp.text : resp.text[i] \notin Whitespace)
           => CoversEverySentence(resp.chunks, resp.sentences)
        /\ (\A i \in DOMAIN resp.text : resp.text[i] \in Whitespace)
           => resp.chunks = <<>>

\* nine sentences give the windows 0, 3 and 6; the first two are full and
\* share the fourth and fifth sentence
C13_Witness ==
    /\ resp.op = "chunk_transcript_by_text"
    /\ Len(resp.sentences) = 9
    /\ Len(resp.chunks) = 3
    /\ resp.chunks[2].chunk_id = <<"text_", 3>>
    /\ resp.chunks[1].text = NumberedSentences(5)
    /\ resp.chunks[3].text = <<"g", ".", " ", "h", ".", " ", "i", ".">>

\* ------------------------------------------------------------------ rebuild and the cache

\* C15 (as claimed): while the collection of the last successful build is in
\* place, every chunk a query_rag call returns is a chunk of that collection,
\* for any question, asked before or not.
C15_RebuildInvalidatesOldAnswers ==
    (Answered /\ Indexed /\ chroma_client[collection_name].ids # <<>>) =>
        \A i \in DOMAIN resp.top_chunks :
           \E j \in DOMAIN chroma_client[collection_name].ids :
              /\ chroma_client[collection_name].ids[j] = resp.top_chunks[i].chunk_id
              /\ chroma_client[collection_name].documents[j] = resp.top_chunks[i].text

\* ------------------------------------------------------------------ calls in progress

\* the route functions are plain `def`s, which the server runs on worker
\* threads: calls overlap, and each access to the cache or to the store is
\* one step of its call
RequestIds == {"r1", "r2"}

Finish(id) == [k \in DOMAIN inflight \ {id} |-> inflight[k]]

Put(id, rec) ==
    [k \in DOMAIN inflight \cup {id} |-> IF k = id THEN rec ELSE inflight[k]]

\* what a finished query_rag call leaves in resp and hist
QueryResp(question, r, results) ==
    [op |-> "query_rag", question |-> question, raised |-> r.raised,
     http_status |-> HttpStatus(r.raised), answer |-> r.answer,
     top_chunks |-> r.top_chunks, elapsed_ms |-> r.elapsed_ms,
     from_cache |-> r.from_cache, indexed |-> r.indexed, calls |-> r.calls,
     results |-> results]

QueryHist(question, r) ==
    IF r.raised = "" /\ (r.from_cache \/ r.indexed)
    THEN Record(hist, <<"rag_answer", question>>,
                [answer |-> r.answer, top_chunks |-> r.top_chunks],
                IF r.from_cache THEN 0 ELSE 1)
    ELSE hist

\* the call `id` returns or raises r
QueryDone(id, question, r, results) ==
    /\ cache' = r.cache
    /\ resp' = QueryResp(question, r, results)
    /\ hist' = QueryHist(question, r)
    /\ inflight' = Finish(id)
    /\ UNCHANGED <<chroma_client, build_called>>

\* query_rag, lines 178-182: the cache lookup; a hit returns at once
StartQuery(questions) ==
    \E id \in RequestIds \ DOMAIN inflight, question \in questions :
        LET cached == get_cached_result(cache, RagPrefix \o question, "rag_answer")
        IN IF TruthyDict(cached)
           THEN /\ resp' = QueryResp(question, QueryHit(cache, cached[1]), None)
                /\ hist' = QueryHist(question, QueryHit(cache, cached[1]))
                /\ UNCHANGED <<chroma_client, cache, build_called, inflight>>
           ELSE /\ inflight' = Put(id, [op |-> "query_rag", pc |-> "get_collection",
                                        text |-> question, stale |-> FALSE,
                                        all_chunks |-> <<>>, results |-> None,
                                        embed |-> "remote"])
                /\ UNCHANGED <<chroma_client, cache, resp, hist, build_called>>

\* lines 186-189: get_collection
QueryOpen(world) ==
    \E id \in DOMAIN inflight, elapsed \in world.elapsed :
        /\ inflight[id].op = "query_rag"
        /\ inflight[id].pc = "get_collection"
        /\ IF ~collection_exists(chroma_client, collection_name)
           THEN QueryDone(id, inflight[id].text,
                          QueryNotIndexed(cache, RagPrefix \o inflight[id].text, elapsed),
                          None)
           ELSE /\ inflight' = [inflight EXCEPT ![id].pc = "get"]
                /\ UNCHANGED <<chroma_client, cache, resp, hist, build_called>>

\* a handle taken before the collection was deleted raises, or (world.by_name)
\* reaches the collection that now has the name
Usable(id, by_name) ==
    /\ collection_exists(chroma_client, collection_name)
    /\ (~inflight[id].stale \/ by_name)

\* lines 192-200: collection.get()
QueryRead(world) ==
    \E id \in DOMAIN inflight, by_name \in world.by_name :
        /\ inflight[id].op = "query_rag"
        /\ inflight[id].pc = "get"
        /\ IF ~Usable(id, by_name)
           THEN QueryDone(id, inflight[id].text,
                          QueryRaise(cache, [embed |-> 0, index |-> 2, generate |-> 0]),
                          None)
           ELSE /\ inflight' =
                     [inflight EXCEPT
                        ![id].pc = "query",
                        ![id].all_chunks =
                            LET collection == chroma_client[collection_name]
                            IN [i \in DOMAIN collection.ids |->
                                  [chunk_id |-> collection.ids[i],
                                   text     |-> collection.documents[i],
                                   metadata |-> collection.metadatas[i]]]]
                /\ UNCHANGED <<chroma_client, cache, resp, hist, build_called>>

\* lines 206-223: the question is embedded and collection.query is asked for
\* min(top_k, len(all_chunks)) results
QuerySearch(world) ==
    \E id \in DOMAIN inflight, by_name \in world.by_name,
       embed \in world.embeds, query_ok \in world.query_oks :
        /\ inflight[id].op = "query_rag"
        /\ inflight[id].pc = "query"
        /\ IF embed = "raise" \/ ~query_ok \/ ~Usable(id, by_name)
           THEN QueryDone(id, inflight[id].text,
                          QueryRaise(cache, [embed |-> 1, index |-> 3, generate |-> 0]),
                          None)
           ELSE \E results \in SemanticResults(chroma_client[collection_name],
                                   Min(Min(top_k, Len(inflight[id].all_chunks)),
                                       Len(chroma_client[collection_name].ids)),
                                   world.dists) :
                   /\ inflight' = [inflight EXCEPT ![id].pc = "rank",
                                                   ![id].results = Some(results),
                                                   ![id].embed = embed]
                   /\ UNCHANGED <<chroma_client, cache, resp, hist, build_called>>

\* lines 202-204 and 226-283: scores, the relevance gate, generation, and the
\* write to the cache
QueryFinish(world) ==
    \E id \in DOMAIN inflight, generated \in world.answers, elapsed \in world.elapsed :
        /\ inflight[id].op = "query_rag"
        /\ inflight[id].pc = "rank"
        /\ LET question       == inflight[id].text
               cache_key      == RagPrefix \o question
               keyword_scores == KeywordScores(question, inflight[id].all_chunks)
               top_chunks     == TopChunks(ScoreResults(keyword_scores,
                                                        inflight[id].results[1]))
               embeds         == IF inflight[id].embed = "remote" THEN 1 ELSE 2
               r == IF Refuse(MaxKeyword(keyword_scores), keyword_threshold, top_chunks)
                    THEN QueryStore(cache, cache_key,
                                    IF is_burmese(question)
                                    THEN RefusalBurmese ELSE RefusalEnglish,
                                    top_chunks, elapsed,
                                    [embed |-> embeds, index |-> 3, generate |-> 0])
                    ELSE IF generated = None
                    THEN QueryRaise(cache, [embed |-> embeds, index |-> 3, generate |-> 1])
                    ELSE QueryStore(cache, cache_key, generated[1], top_chunks, elapsed,
                                    [embed |-> embeds, index |-> 3, generate |-> 1])
           IN QueryDone(id, question, r, inflight[id].results)

\* translate_to_burmese, lines 16-22: validation and the cache lookup
StartTranslate(texts) ==
    \E id \in RequestIds \ DOMAIN inflight, text \in texts :
        LET cached == get_cached_result(cache, text, "translation")
            done(raised, translated, hit) ==
                /\ resp' = [op |-> "translate_to_burmese", text |-> text,
                            raised |-> raised, http_status |-> HttpStatus(raised),
                            translated |-> translated, elapsed_ms |-> 0,
                            from_cache |-> hit, computes |-> 0]
                /\ hist' = IF hit THEN Record(hist, <<"translation", text>>, translated, 0)
                           ELSE hist
                /\ UNCHANGED <<chroma_client, cache, build_called, inflight>>
        IN IF text = <<>> \/ Len(Strip(text)) < MinTranslateLen
           THEN done("ValueError", <<>>, FALSE)
           ELSE IF TruthyStr(cached) THEN done("", cached[1], TRUE)
           ELSE /\ inflight' = Put(id, [op |-> "translate_to_burmese",
                                        pc |-> "call_gemini", text |-> text,
                                        stale |-> FALSE, all_chunks |-> <<>>,
                                        results |-> None, embed |-> "remote"])
                /\ UNCHANGED <<chroma_client, cache, resp, hist, build_called>>

\* lines 24-32: call_gemini, then set_cached_result
TranslateFinish(world) ==
    \E id \in DOMAIN inflight, translated \in world.answers, elapsed \in world.elapsed :
        /\ inflight[id].op = "translate_to_burmese"
        /\ inflight[id].pc = "call_gemini"
        /\ LET text == inflight[id].text
               r == translate_to_burmese(<<>>, text,
                        [translated |-> translated, elapsed |-> elapsed])
           IN /\ cache' = IF r.raised = ""
                          THEN set_cached_result(cache, text, "translation", r.translated)
                          ELSE cache
              /\ resp' = [op |-> "translate_to_burmese", text |-> text,
                          raised |-> r.raised, http_status |-> HttpStatus(r.raised),
                          translated |-> r.translated, elapsed_ms |-> r.elapsed_ms,
                          from_cache |-> FALSE, computes |-> 1]
              /\ hist' = IF r.raised = ""
                         THEN Record(hist, <<"translation", text>>, r.translated, 1)
                         ELSE hist
              /\ inflight' = Finish(id)
              /\ UNCHANGED <<chroma_client, build_called>>

\* ---- overlapping calls that use the cache, against a built index

RaceQuestions == { <<"a">> }

RaceTexts == { Rep("a", 10) }

\* generation raises or returns the empty string or one of two texts
RaceWorld ==
    [dists     |-> {90},
     embeds    |-> {"remote"},
     query_oks |-> BOOLEAN,
     answers   |-> {None, Some(<<>>), Some(<<"x">>), Some(<<"y">>)},
     elapsed   |-> {1},
     by_name   |-> {FALSE}]

InitRace ==
    /\ chroma_client = build_rag_index(<<>>, TextProse, NoSegments, StoreOk).store
    /\ cache = <<>>
    /\ resp = [op |-> "init"]
    /\ hist = <<>>
    /\ build_called = TRUE
    /\ inflight = <<>>

NextRace ==
    \/ StartQuery(RaceQuestions)
    \/ QueryOpen(RaceWorld)
    \/ QueryRead(RaceWorld)
    \/ QuerySearch(RaceWorld)
    \/ QueryFinish(RaceWorld)
    \/ StartTranslate(RaceTexts)
    \/ TranslateFinish(RaceWorld)

SpecRace == InitRace /\ [][NextRace]_vars

\* the cache key a call in progress will write
KeyOf(rec) ==
    IF rec.op = "query_rag"
    THEN get_cache_key(RagPrefix \o rec.text, "rag_answer")
    ELSE get_cache_key(rec.text, "translation")

\* the last call computed its result and wrote it: the cache holds it
LastWriteWins ==
    /\ (resp.op = "query_rag" /\ resp.raised = "" /\ resp.indexed /\ ~resp.from_cache)
       => get_cached_result(cache, RagPrefix \o resp.question, "rag_answer")
             = Some([answer |-> resp.answer, top_chunks |-> resp.top_chunks])
    /\ (resp.op = "translate_to_burmese" /\ resp.raised = "" /\ ~resp.from_cache)
       => get_cached_result(cache, resp.text, "translation") = Some(resp.translated)

\* the last call was a hit: it returned the entry
HitReturnsEntry ==
    /\ (resp.op = "query_rag" /\ resp.from_cache)
       => get_cached_result(cache, RagPrefix \o resp.question, "rag_answer")
             = Some([answer |-> resp.answer, top_chunks |-> resp.top_chunks])
    /\ (resp.op = "translate_to_burmese" /\ resp.from_cache)
       => get_cached_result(cache, resp.text, "translation") = Some(resp.translated)

\* a call that looks its key up while the cache holds an entry for it does
\* not go on to compute
EntryMeansHit ==
    \A id \in DOMAIN inflight' \ DOMAIN inflight :
        KeyOf(inflight'[id]) \notin DOMAIN cache

\* C14 (as claimed): calls with the same cache key may overlap and both
\* compute; the entry is then the result written last, and every call that
\* starts once the entry is there is a hit that returns it.
C14_SameKeyRaceLastWriteWins ==
    /\ [](LastWriteWins /\ HitReturnsEntry)
    /\ [][EntryMeansHit]_vars

\* ---- a build in progress

\* what a finished build_rag_index call leaves in resp
BuildResp(rec, raised, indexed_chunks) ==
    [op |-> "build_rag_index", transcript_text |-> rec.transcript_text,
     segments |-> rec.segments, raised |-> raised,
     http_status |-> HttpStatus(raised), indexed_chunks |-> indexed_chunks,
     status |-> IF raised = "" THEN "success" ELSE "",
     embed_calls |-> rec.embed_calls]

\* build_rag_index, lines 112-128: chunking and embedding, which touch
\* neither the store nor the cache
StartBuild(inputs, world) ==
    \E inp \in inputs, env \in BuildEnvs(world) :
        LET chunks == ChooseChunks(inp.transcript_text, inp.segments)
            texts  == [i \in DOMAIN chunks |-> chunks[i].text]
            emb    == compute_embeddings(texts, env.embed)
            rec    == [op |-> "build_rag_index", pc |-> "delete_collection",
                       transcript_text |-> inp.transcript_text,
                       segments |-> inp.segments, chunks |-> chunks,
                       embeddings |-> emb.embeddings,
                       embed_calls |-> IF chunks = <<>> THEN 0
                                       ELSE Len(emb.remote_calls) + Len(emb.local_calls)]
        IN /\ "build" \notin DOMAIN inflight
           /\ env.delete_ok /\ env.create_ok /\ env.add_ok
           /\ build_called' = TRUE
           /\ IF chunks = <<>> \/ emb.raised # ""
              THEN /\ resp' = BuildResp(rec, IF chunks = <<>> THEN "ValueError"
                                             ELSE emb.raised, 0)
                   /\ UNCHANGED <<chroma_client, cache, hist, inflight>>
              ELSE /\ inflight' = Put("build", rec)
                   /\ UNCHANGED <<chroma_client, cache, resp, hist>>

\* lines 130-136: the old collection is deleted; the handles the queries in
\* progress hold on it are dead from here on
BuildDelete(world) ==
    \E delete_ok \in world.store_oks :
        /\ "build" \in DOMAIN inflight
        /\ inflight["build"].pc = "delete_collection"
        /\ chroma_client' = DeleteExisting(chroma_client, delete_ok)
        /\ inflight' =
              [id \in DOMAIN inflight |->
                 IF id = "build" THEN [inflight[id] EXCEPT !.pc = "create_collection"]
                 ELSE IF /\ chroma_client' # chroma_client
                         /\ inflight[id].op = "query_rag"
                         /\ inflight[id].pc \in {"get", "query"}
                 THEN [inflight[id] EXCEPT !.stale = TRUE]
                 ELSE inflight[id]]
        /\ UNCHANGED <<cache, resp, hist, build_called>>

\* lines 139-142: create_collection
BuildCreate(world) ==
    \E create_ok \in world.store_oks :
        LET made == create_collection(chroma_client, collection_name, create_ok)
        IN /\ "build" \in DOMAIN inflight
           /\ inflight["build"].pc = "create_collection"
           /\ chroma_client' = made.store
           /\ IF made.raised
              THEN /\ resp' = BuildResp(inflight["build"], "Exception", 0)
                   /\ inflight' = Finish("build")
              ELSE /\ inflight' = [inflight EXCEPT !["build"].pc = "add"]
                   /\ UNCHANGED resp
           /\ UNCHANGED <<cache, hist, build_called>>

\* lines 145-163: the metadata is built and collection.add stores every chunk
\* in one call
BuildAdd(world) ==
    \E add_ok \in world.store_oks :
        /\ "build" \in DOMAIN inflight
        /\ inflight["build"].pc = "add"
        /\ LET rec    == inflight["build"]
               chunks == rec.chunks
               filled == collection_add(chroma_client[collection_name],
                             [i \in DOMAIN chunks |-> chunks[i].chunk_id],
                             rec.embeddings,
                             [i \in DOMAIN chunks |-> chunks[i].text],
                             [i \in DOMAIN chunks |-> BuildMetadata(chunks[i])])
           IN IF add_ok /\ collection_exists(chroma_client, collection_name)
              THEN /\ chroma_client' = [chroma_client EXCEPT ![collection_name] = filled]
                   /\ resp' = BuildResp(rec, "", Len(chunks))
              ELSE /\ chroma_client' = chroma_client
                   /\ resp' = BuildResp(rec, "Exception", 0)
        /\ inflight' = Finish("build")
        /\ UNCHANGED <<cache, hist, build_called>>

\* ---- one query overlapping one build

BuildRaceInputs ==
    { [transcript_text |-> TextProse, segments |-> NoSegments],
      [transcript_text |-> TextProse, segments |-> TwoSegments] }

\* "a" is a word of every generation
BuildRaceQuestions == { <<"a">> }

BuildRaceWorld ==
    [dists        |-> {90},
     embeds       |-> {"remote"},
     query_oks    |-> BOOLEAN,
     answers      |-> {None, Some(<<"x">>)},
     elapsed      |-> {1},
     by_name      |-> BOOLEAN,
     api_keys     |-> {TRUE},
     remote_fails |-> {0},
     local_oks    |-> {TRUE},
     store_oks    |-> BOOLEAN]

NextBuildRace ==
    \/ StartBuild(BuildRaceInputs, BuildRaceWorld)
    \/ BuildDelete(BuildRaceWorld)
    \/ BuildCreate(BuildRaceWorld)
    \/ BuildAdd(BuildRaceWorld)
    \/ (DOMAIN inflight \subseteq {"build"} /\ StartQuery(BuildRaceQuestions))
    \/ QueryOpen(BuildRaceWorld)
    \/ QueryRead(BuildRaceWorld)
    \/ QuerySearch(BuildRaceWorld)
    \/ QueryFinish(BuildRaceWorld)

SpecBuildRace == Init /\ [][NextBuildRace]_vars

\* the (id, text) pairs one build stores, in order
GenerationOf(inp) ==
    LET chunks == ChooseChunks(inp.transcript_text, inp.segments)
    IN [i \in DOMAIN chunks |->
          [chunk_id |-> chunks[i].chunk_id, text |-> chunks[i].text]]

\* the (id, text) pairs a query read with collection.get()
ReadOf(all_chunks) ==
    [i \in DOMAIN all_chunks |->
          [chunk_id |-> all_chunks[i].chunk_id, text |-> all_chunks[i].text]]

\* the query read the complete chunk set of one build
ComputedFromCompleteBuild(rec) ==
    \E inp \in BuildRaceInputs :
        /\ GenerationOf(inp) # <<>>
        /\ ReadOf(rec.all_chunks) = GenerationOf(inp)

\* in this step the query `id` writes its result to the cache and returns
Stores(id) ==
    /\ id \in DOMAIN inflight \ DOMAIN inflight'
    /\ inflight[id].op = "query_rag"
    /\ inflight[id].pc = "rank"
    /\ resp'.raised = ""

NoGuidanceStored ==
    \A k \in DOMAIN cache : cache[k].answer # GuidanceMessage

\* the chunks of every cache entry are chunks of one single build
OneGeneration ==
    \A k \in DOMAIN cache :
        \E inp \in BuildRaceInputs :
            \A i \in DOMAIN cache[k].top_chunks :
                \E j \in DOMAIN GenerationOf(inp) :
                    /\ GenerationOf(inp)[j].chunk_id = cache[k].top_chunks[i].chunk_id
                    /\ GenerationOf(inp)[j].text = cache[k].top_chunks[i].text

\* a query that read the empty collection of a build in progress stores a
\* refusal without chunks, and asks for no generation
EmptyReadStoresRefusal ==
    \A id \in DOMAIN inflight :
        (Stores(id) /\ inflight[id].all_chunks = <<>>)
            => /\ resp'.answer \in {RefusalEnglish, RefusalBurmese}
               /\ resp'.top_chunks = <<>>
               /\ resp'.calls.generate = 0
               /\ get_cached_result(cache', RagPrefix \o inflight[id].text,
                                    "rag_answer")
                    = Some([answer |-> resp'.answer, top_chunks |-> <<>>])

====
